---- MODULE Spec2Model ----
(***************************************************************************)
(* WarpXSolverVec: the solver vector of the implicit field solvers.  A     *)
(* vector owns, per AMR level, an array of 3 unique_ptr<MultiFab>; the     *)
(* class keeps one static ownership mask (m_dotMask) for dot products.     *)
(* Real values are modelled by bounded integers; every elementwise         *)
(* MultiFab primitive is modelled by what AMReX documents it to do.        *)
(***************************************************************************)
EXTENDS Integers, Sequences, FiniteSets

\* ---------------------------------------------------------------- bounds
MaxVal == 1         \* array values range over -MaxVal..MaxVal
NumPatches == 2     \* patches (boxes) of the BoxArray of the field arrays
MaxNComp == 2       \* largest nComp() of the template field arrays

\* ------------------------------------------------------ program constants
m_ncomp == 1
m_num_amr_levels == 1
NumFields == 3      \* std::array< std::unique_ptr<MultiFab>, 3 >

\* linComb involves three vectors (this, X, Y) and every other call at most
\* two: three vectors show every way the operands of a call can coincide.
\* Construction, move and destruction involve two objects at a time.
Vecs == {1, 2, 3}
Objs == {1, 2}
Fields == 0..(NumFields - 1)
Vals == (-MaxVal)..MaxVal
Scalars == {-1, 0, 1}

\* A nodal one-cell box p holds the mesh points p-1 and p: neighbouring
\* patches share one boundary point, stored once in each of them.
PatchPts(p) == {p - 1, p}
Entries == {e \in (1..NumPatches) \X (0..NumPatches) : e[2] \in PatchPts(e[1])}
Points == {e[2] : e \in Entries}

VARIABLES
    assertions,          \* build with AMREX_ASSERT enabled (debug) or not
    Efield,              \* the field arrays handed to Define/Copy as template
    live,                \* live[v]: object v is within its lifetime
    m_is_defined,        \* per object
    m_field_vec,         \* per object: sequence (levels) of [Fields -> fab]
    m_dot_mask_defined,  \* static
    m_dotMask,           \* static: sequence (levels) of [Fields -> mask]
    status,              \* "ok", "aborted" (assertion abort), "crashed"
    last,                \* the most recent call and how it ended
    movedFrom,           \* history: v has been the source of a move
    defines              \* history: allocations made by Define on v

vars == <<assertions, Efield, live, m_is_defined, m_field_vec,
          m_dot_mask_defined, m_dotMask, status, last, movedFrom, defines>>

\* ------------------------------------------------------------- MultiFab
\* A MultiFab: identity of the allocation, nComp, and one value per
\* (component, patch, point).  No ghost cells: ngrow = 0 everywhere.
NullFab == [id |-> 0, ncomp |-> 0, data |-> <<>>]

MakeFab(id, ncomp, fill) ==
    [id |-> id, ncomp |-> ncomp,
     data |-> [c \in 0..(ncomp - 1) |-> [e \in Entries |-> fill]]]

\* Components comp..comp+nc-1 of dst replaced by those of newdata.
SetComps(dst, comp, nc, newdata) ==
    [dst EXCEPT !.data =
        [c \in DOMAIN dst.data |->
            IF c \in comp..(comp + nc - 1) THEN newdata[c] ELSE dst.data[c]]]

MFplus(dst, src, comp, nc) ==
    SetComps(dst, comp, nc,
        [c \in comp..(comp + nc - 1) |->
            [e \in Entries |-> dst.data[c][e] + src.data[c][e]]])

MFminus(dst, src, comp, nc) ==
    SetComps(dst, comp, nc,
        [c \in comp..(comp + nc - 1) |->
            [e \in Entries |-> dst.data[c][e] - src.data[c][e]]])

MFLinComb(dst, a, x, xcomp, b, y, ycomp, dcomp, nc) ==
    SetComps(dst, dcomp, nc,
        [c \in dcomp..(dcomp + nc - 1) |->
            [e \in Entries |-> a * x.data[xcomp + (c - dcomp)][e]
                               + b * y.data[ycomp + (c - dcomp)][e]]])

MFSaxpy(dst, a, src, scomp, dcomp, nc) ==
    SetComps(dst, dcomp, nc,
        [c \in dcomp..(dcomp + nc - 1) |->
            [e \in Entries |-> dst.data[c][e] + a * src.data[scomp + (c - dcomp)][e]]])

MFmult(dst, a, comp, nc) ==
    SetComps(dst, comp, nc,
        [c \in comp..(comp + nc - 1) |->
            [e \in Entries |-> dst.data[c][e] * a]])

MFsetVal(dst, val) ==
    SetComps(dst, 0, dst.ncomp,
        [c \in 0..(dst.ncomp - 1) |-> [e \in Entries |-> val]])

MFCopy(dst, src, scomp, dcomp, nc) ==
    SetComps(dst, dcomp, nc,
        [c \in dcomp..(dcomp + nc - 1) |->
            [e \in Entries |-> src.data[scomp + (c - dcomp)][e]]])

\* ------------------------------------------------------ WarpXSolverVec
\* The state the member functions act on, and what a call returns:
\* out = "ok" (ran to its end), "aborted" (a failed assertion) or "ub"
\* (indexing an empty amrex::Vector or dereferencing a null unique_ptr).
State == [fv |-> m_field_vec, def |-> m_is_defined, cnt |-> defines]
Res(out, s) == [out |-> out, fv |-> s.fv, def |-> s.def, cnt |-> s.cnt]
Put(s, v, arrays) == [s EXCEPT !.fv[v] = arrays]

IsDefined(s, v) == s.def[v]
getVec(s, v) == s.fv[v]

\* Every a[lev][n] the loops of the class touch can be read and dereferenced.
Usable(arr) ==
    /\ Len(arr) >= m_num_amr_levels
    /\ \A l \in 1..m_num_amr_levels : \A n \in Fields : arr[l][n].id # 0

UsedIdsOf(fv) ==
    UNION {{fv[v][l][n].id : n \in Fields, l \in 1..Len(fv[v])} : v \in Vecs}
FreshBase(fv) ==
    CHOOSE k \in 0..Cardinality(Vecs) :
        /\ \A n \in Fields : (NumFields * k + n + 1) \notin UsedIdsOf(fv)
        /\ \A j \in 0..(k - 1) :
              \E n \in Fields : (NumFields * j + n + 1) \in UsedIdsOf(fv)

\* resize(m_num_amr_levels), then one new MultiFab per field on level 0 with
\* the model's nComp(); its values are whatever the allocation holds (g).
Allocate(old, arr, base, g) ==
    [l \in 1..m_num_amr_levels |->
        IF l = 1
        THEN [n \in Fields |-> MakeFab(NumFields * base + n + 1, arr[1][n].ncomp, g)]
        ELSE IF l <= Len(old) THEN old[l] ELSE [n \in Fields |-> NullFab]]

\* Define without the assertion that the vector is not yet defined.
DefineArrNoAssert(s, v, arr, g) ==
    IF Len(arr) < 1 \/ \E n \in Fields : arr[1][n].id = 0
    THEN Res("ub", s)
    ELSE Res("ok", [fv |-> [s.fv EXCEPT ![v] = Allocate(s.fv[v], arr, FreshBase(s.fv), g)],
                    def |-> [s.def EXCEPT ![v] = TRUE],
                    cnt |-> [s.cnt EXCEPT ![v] = @ + 1]])

DefineArr(s, v, arr, g) ==
    IF IsDefined(s, v) THEN Res("aborted", s)
    ELSE IF Len(arr) < 1 \/ \E n \in Fields : arr[1][n].id = 0
         THEN Res("ub", s)
    ELSE Res("ok", [fv |-> [s.fv EXCEPT ![v] = Allocate(s.fv[v], arr, FreshBase(s.fv), g)],
                    def |-> [s.def EXCEPT ![v] = TRUE],
                    cnt |-> [s.cnt EXCEPT ![v] = @ + 1]])

Define(s, v, a_vec, g) ==
    IF ~IsDefined(s, a_vec) THEN Res("aborted", s)
    ELSE DefineArr(s, v, getVec(s, a_vec), g)

CopyArr(s, v, arr) ==
    IF assertions /\ ~IsDefined(s, v) THEN Res("aborted", s)
    ELSE IF ~Usable(s.fv[v]) \/ ~Usable(arr) THEN Res("ub", s)
    ELSE Res("ok", Put(s, v,
            [l \in 1..Len(s.fv[v]) |->
                IF l <= m_num_amr_levels
                THEN [n \in Fields |-> MFCopy(s.fv[v][l][n], arr[l][n], 0, 0, m_ncomp)]
                ELSE s.fv[v][l]]))

Copy(s, v, a_vec, g) ==
    IF assertions /\ ~IsDefined(s, a_vec) THEN Res("aborted", s)
    ELSE LET d == IF ~IsDefined(s, v) THEN Define(s, v, a_vec, g) ELSE Res("ok", s)
         IN  IF d.out # "ok" THEN d
             ELSE CopyArr([fv |-> d.fv, def |-> d.def, cnt |-> d.cnt], v, d.fv[a_vec])

\* The loops "for lev < m_num_amr_levels, for n < 3" replacing every array
\* of v by newfabs[lev][n].
Each(arrays, newfabs) ==
    [l \in 1..Len(arrays) |-> IF l <= m_num_amr_levels THEN newfabs[l] ELSE arrays[l]]

Levs == 1..m_num_amr_levels

PlusEq(s, v, a_vec) ==
    IF ~Usable(s.fv[v]) \/ ~Usable(s.fv[a_vec]) THEN Res("ub", s)
    ELSE Res("ok", Put(s, v, Each(s.fv[v],
            [l \in Levs |-> [n \in Fields |->
                MFplus(s.fv[v][l][n], s.fv[a_vec][l][n], 0, 1)]])))

MinusEq(s, v, a_vec) ==
    IF ~Usable(s.fv[v]) \/ ~Usable(s.fv[a_vec]) THEN Res("ub", s)
    ELSE Res("ok", Put(s, v, Each(s.fv[v],
            [l \in Levs |-> [n \in Fields |->
                MFminus(s.fv[v][l][n], s.fv[a_vec][l][n], 0, 1)]])))

\* this = a*X, then this += b*Y: wrong when Y is the receiver.
linCombTwoStep(s, v, a, X, b, Y) ==
    IF ~Usable(s.fv[v]) \/ ~Usable(s.fv[X]) \/ ~Usable(s.fv[Y]) THEN Res("ub", s)
    ELSE LET t == Put(s, v, Each(s.fv[v],
                    [l \in Levs |-> [n \in Fields |->
                        MFLinComb(s.fv[v][l][n], a, s.fv[X][l][n], 0,
                                                 0, s.fv[X][l][n], 0, 0, 1)]]))
         IN  Res("ok", Put(t, v, Each(t.fv[v],
                    [l \in Levs |-> [n \in Fields |->
                        MFSaxpy(t.fv[v][l][n], b, t.fv[Y][l][n], 0, 0, 1)]])))

linComb(s, v, a, X, b, Y) ==
    IF ~Usable(s.fv[v]) \/ ~Usable(s.fv[X]) \/ ~Usable(s.fv[Y]) THEN Res("ub", s)
    ELSE Res("ok", Put(s, v, Each(s.fv[v],
            [l \in Levs |-> [n \in Fields |->
                MFLinComb(s.fv[v][l][n], a, s.fv[X][l][n], 0,
                                         b, s.fv[Y][l][n], 0, 0, 1)]])))

increment(s, v, X, a) ==
    IF ~Usable(s.fv[v]) \/ ~Usable(s.fv[X]) THEN Res("ub", s)
    ELSE Res("ok", Put(s, v, Each(s.fv[v],
            [l \in Levs |-> [n \in Fields |->
                MFSaxpy(s.fv[v][l][n], a, s.fv[X][l][n], 0, 0, 1)]])))

scale(s, v, a_a) ==
    IF ~Usable(s.fv[v]) THEN Res("ub", s)
    ELSE Res("ok", Put(s, v, Each(s.fv[v],
            [l \in Levs |-> [n \in Fields |-> MFmult(s.fv[v][l][n], a_a, 0, 1)]])))

setVal(s, v, a_val) ==
    IF assertions /\ ~IsDefined(s, v) THEN Res("aborted", s)
    ELSE IF ~Usable(s.fv[v]) THEN Res("ub", s)
    ELSE Res("ok", Put(s, v, Each(s.fv[v],
            [l \in Levs |-> [n \in Fields |-> MFsetVal(s.fv[v][l][n], a_val)]])))

zero(s, v) == setVal(s, v, 0)

\* Defaulted move constructor: memberwise move; the moved-from amrex::Vector
\* is left empty and the bool is copied.
MoveCtor(s, v, a_vec) ==
    [fv |-> [s.fv EXCEPT ![v] = s.fv[a_vec], ![a_vec] = <<>>],
     def |-> [s.def EXCEPT ![v] = s.def[a_vec]],
     cnt |-> [s.cnt EXCEPT ![v] = 0]]

\* A move assignment that copies the pointers and leaves the source's.
MoveAssignKeepsSource(s, v, a_vec) ==
    IF v # a_vec
    THEN [fv |-> [s.fv EXCEPT ![v] = s.fv[a_vec]],
          def |-> [s.def EXCEPT ![v] = TRUE],
          cnt |-> s.cnt]
    ELSE s

MoveAssign(s, v, a_vec) ==
    IF v # a_vec
    THEN [fv |-> [s.fv EXCEPT ![v] = s.fv[a_vec], ![a_vec] = <<>>],
          def |-> [s.def EXCEPT ![v] = TRUE],
          cnt |-> s.cnt]
    ELSE s

\* ------------------------------------------------------ ownership mask
\* iMultiFab OwnerMask: 1 on the first patch holding a mesh point, 0 on the
\* copies of that point stored by the other patches.
Owner(x) == CHOOSE p \in 1..NumPatches :
                /\ <<p, x>> \in Entries
                /\ \A q \in 1..NumPatches : <<q, x>> \in Entries => p <= q
OwnerMask == [e \in Entries |-> IF e[1] = Owner(e[2]) THEN 1 ELSE 0]

RECURSIVE SumOver(_, _)
SumOver(f, S) ==
    IF S = {} THEN 0
    ELSE LET x == CHOOSE y \in S : TRUE IN f[x] + SumOver(f, S \ {x})

\* amrex::MultiFab::Dot(mask, x, xcomp, y, ycomp, numcomp, nghost, local)
MFDot(mask, x, xcomp, y, ycomp, nc) ==
    SumOver([ce \in (0..(nc - 1)) \X Entries |->
                mask[ce[2]] * x.data[xcomp + ce[1]][ce[2]] * y.data[ycomp + ce[1]][ce[2]]],
            (0..(nc - 1)) \X Entries)

SetDotMask(s, mask, built, v) ==
    IF built THEN [out |-> "ok", mask |-> mask, built |-> built]
    ELSE IF ~IsDefined(s, v) THEN [out |-> "aborted", mask |-> mask, built |-> built]
    ELSE IF ~Usable(s.fv[v]) THEN [out |-> "ub", mask |-> mask, built |-> built]
    ELSE [out |-> "ok",
          mask |-> [l \in Levs |-> [n \in Fields |-> OwnerMask]],
          built |-> TRUE]

dotProduct(s, mask, built, v, a_X) ==
    IF ~built THEN [out |-> "aborted", val |-> 0]
    ELSE IF ~IsDefined(s, v) \/ ~IsDefined(s, a_X) THEN [out |-> "aborted", val |-> 0]
    ELSE IF Len(mask) < 1 \/ ~Usable(s.fv[v]) \/ ~Usable(s.fv[a_X])
         THEN [out |-> "ub", val |-> 0]
    ELSE [out |-> "ok",
          val |-> SumOver([n \in Fields |->
                              MFDot(mask[1][n], s.fv[v][1][n], 0, s.fv[a_X][1][n], 0, 1)],
                          Fields)]

\* std::sqrt on the integer model: the integer part of the root.
Sqrt(x) == CHOOSE r \in 0..x : r * r <= x /\ x < (r + 1) * (r + 1)

\* norm2 returning the dot product itself.
norm2NoRoot(s, mask, built, v) ==
    dotProduct(s, mask, built, v, v)

norm2(s, mask, built, v) ==
    LET norm == dotProduct(s, mask, built, v, v)
    IN  [out |-> norm.out, val |-> IF norm.out = "ok" THEN Sqrt(norm.val) ELSE 0]

\* static void clearDotMask() { m_dotMask.clear(); }
clearDotMask(mask, built) == [mask |-> <<>>, built |-> built]

\* ------------------------------------------------------------ actions
\* The field arrays of the simulation: one MultiFab per field with nc
\* components, the values depending on field, component and point; field 1
\* holds different values in the two copies of a shared point.
FieldArrays(nc) ==
    << [n \in Fields |->
          [id |-> -(n + 1), ncomp |-> nc,
           data |-> [c \in 0..(nc - 1) |->
                       [e \in Entries |->
                           IF n = 1 THEN (c + e[1] + e[2]) % 2
                                    ELSE (n + c + e[2]) % 2]]]] >>

\* What a freshly allocated MultiFab may hold.
Garbage == {0, 1}

NoCall == [op |-> "none", recv |-> 0, x |-> 0, y |-> 0, a |-> 0, b |-> 0,
           out |-> "returned", ub |-> FALSE, val |-> 0]

InRange(arr) ==
    \A l \in 1..Len(arr) : \A n \in Fields :
        \A c \in DOMAIN arr[l][n].data : \A e \in Entries :
            arr[l][n].data[c][e] \in Vals

\* How a call can end: undefined behaviour may abort, crash or return.
Outcomes(out) ==
    IF out = "ub" THEN {"aborted", "crashed", "returned"}
    ELSE IF out = "aborted" THEN {"aborted"} ELSE {"returned"}

\* The driver issues its next call once the previous one has returned and
\* been taken note of.
Ready == status = "ok" /\ last.op = "none"

Init ==
    /\ assertions \in BOOLEAN
    /\ Efield \in {FieldArrays(nc) : nc \in 1..MaxNComp}
    /\ live = [v \in Vecs |-> FALSE]
    /\ m_is_defined = [v \in Vecs |-> FALSE]
    /\ m_field_vec = [v \in Vecs |-> <<>>]
    /\ m_dot_mask_defined = FALSE
    /\ m_dotMask = <<>>
    /\ status = "ok"
    /\ last = NoCall
    /\ movedFrom = [v \in Vecs |-> FALSE]
    /\ defines = [v \in Vecs |-> 0]

\* A member call on v that ended as r says, recorded in last.
Ends(call, r, val) ==
    \E res \in {r} :
        /\ \A w \in Vecs : InRange(res.fv[w])
        /\ \E o \in Outcomes(res.out) :
            /\ status' = (IF o = "returned" THEN "ok" ELSE o)
            /\ last' = [call EXCEPT !.out = o, !.ub = (res.out = "ub"),
                                    !.val = (IF res.out = "ok" THEN val ELSE 0)]
        /\ m_field_vec' = res.fv
        /\ m_is_defined' = res.def
        /\ defines' = res.cnt
        /\ UNCHANGED <<assertions, Efield, live, movedFrom>>

Call0(op, v) == [NoCall EXCEPT !.op = op, !.recv = v]
Call1(op, v, x) == [NoCall EXCEPT !.op = op, !.recv = v, !.x = x]
Call2(op, v, x, y) == [NoCall EXCEPT !.op = op, !.recv = v, !.x = x, !.y = y]

DefaultCtor(v) ==
    /\ Ready /\ ~live[v]
    /\ live' = [live EXCEPT ![v] = TRUE]
    /\ m_is_defined' = [m_is_defined EXCEPT ![v] = FALSE]
    /\ m_field_vec' = [m_field_vec EXCEPT ![v] = <<>>]
    /\ movedFrom' = [movedFrom EXCEPT ![v] = FALSE]
    /\ defines' = [defines EXCEPT ![v] = 0]
    /\ last' = Call0("ctor", v)
    /\ UNCHANGED <<assertions, Efield, m_dot_mask_defined, m_dotMask, status>>

Dtor(v) ==
    /\ Ready /\ live[v]
    /\ live' = [live EXCEPT ![v] = FALSE]
    /\ m_is_defined' = [m_is_defined EXCEPT ![v] = FALSE]
    /\ m_field_vec' = [m_field_vec EXCEPT ![v] = <<>>]
    /\ movedFrom' = [movedFrom EXCEPT ![v] = FALSE]
    /\ defines' = [defines EXCEPT ![v] = 0]
    /\ last' = Call0("dtor", v)
    /\ UNCHANGED <<assertions, Efield, m_dot_mask_defined, m_dotMask, status>>

CallMoveCtor(v, w) ==
    /\ Ready /\ ~live[v] /\ live[w]
    /\ LET r == MoveCtor(State, v, w)
       IN  /\ m_field_vec' = r.fv
           /\ m_is_defined' = r.def
           /\ defines' = r.cnt
    /\ live' = [live EXCEPT ![v] = TRUE]
    /\ movedFrom' = [movedFrom EXCEPT ![v] = FALSE, ![w] = TRUE]
    /\ last' = Call1("movector", v, w)
    /\ UNCHANGED <<assertions, Efield, m_dot_mask_defined, m_dotMask, status>>

CallMoveAssign(v, w) ==
    /\ Ready /\ live[v] /\ live[w]
    /\ LET r == MoveAssign(State, v, w)
       IN  /\ m_field_vec' = r.fv
           /\ m_is_defined' = r.def
           /\ defines' = r.cnt
    /\ movedFrom' = [movedFrom EXCEPT ![w] = (v # w \/ movedFrom[w])]
    /\ last' = Call1("moveassign", v, w)
    /\ UNCHANGED <<assertions, Efield, live, m_dot_mask_defined, m_dotMask, status>>

CallDefineArr(v) ==
    /\ Ready /\ live[v]
    /\ \E g \in Garbage : Ends(Call0("DefineArr", v), DefineArr(State, v, Efield, g), 0)
    /\ UNCHANGED <<m_dot_mask_defined, m_dotMask>>

CallDefine(v, w) ==
    /\ Ready /\ live[v] /\ live[w]
    /\ \E g \in Garbage : Ends(Call1("Define", v, w), Define(State, v, w, g), 0)
    /\ UNCHANGED <<m_dot_mask_defined, m_dotMask>>

CallCopyArr(v) ==
    /\ Ready /\ live[v]
    /\ Ends(Call0("CopyArr", v), CopyArr(State, v, Efield), 0)
    /\ UNCHANGED <<m_dot_mask_defined, m_dotMask>>

CallCopy(v, w) ==
    /\ Ready /\ live[v] /\ live[w]
    /\ \E g \in Garbage : Ends(Call1("Copy", v, w), Copy(State, v, w, g), 0)
    /\ UNCHANGED <<m_dot_mask_defined, m_dotMask>>

CallPlusEq(v, w) ==
    /\ Ready /\ live[v] /\ live[w]
    /\ Ends(Call1("+=", v, w), PlusEq(State, v, w), 0)
    /\ UNCHANGED <<m_dot_mask_defined, m_dotMask>>

CallMinusEq(v, w) ==
    /\ Ready /\ live[v] /\ live[w]
    /\ Ends(Call1("-=", v, w), MinusEq(State, v, w), 0)
    /\ UNCHANGED <<m_dot_mask_defined, m_dotMask>>

CallLinComb(v, a, X, b, Y) ==
    /\ Ready /\ live[v] /\ live[X] /\ live[Y]
    /\ Ends([Call2("linComb", v, X, Y) EXCEPT !.a = a, !.b = b], linComb(State, v, a, X, b, Y), 0)
    /\ UNCHANGED <<m_dot_mask_defined, m_dotMask>>

CallIncrement(v, X, a) ==
    /\ Ready /\ live[v] /\ live[X]
    /\ Ends([Call1("increment", v, X) EXCEPT !.a = a], increment(State, v, X, a), 0)
    /\ UNCHANGED <<m_dot_mask_defined, m_dotMask>>

CallScale(v, a) ==
    /\ Ready /\ live[v]
    /\ Ends([Call0("scale", v) EXCEPT !.a = a], scale(State, v, a), 0)
    /\ UNCHANGED <<m_dot_mask_defined, m_dotMask>>

CallSetVal(v, a) ==
    /\ Ready /\ live[v]
    /\ Ends([Call0("setVal", v) EXCEPT !.a = a], setVal(State, v, a), 0)
    /\ UNCHANGED <<m_dot_mask_defined, m_dotMask>>

CallZero(v) ==
    /\ Ready /\ live[v]
    /\ Ends(Call0("zero", v), zero(State, v), 0)
    /\ UNCHANGED <<m_dot_mask_defined, m_dotMask>>

\* A call that leaves every vector as it is and ends as out says.
EndsConst(call, out, val) ==
    /\ \E o \in Outcomes(out) :
        /\ status' = (IF o = "returned" THEN "ok" ELSE o)
        /\ last' = [call EXCEPT !.out = o, !.ub = (out = "ub"),
                                !.val = (IF out = "ok" THEN val ELSE 0)]
    /\ UNCHANGED <<assertions, Efield, live, movedFrom, m_field_vec, m_is_defined, defines>>

CallSetDotMask(v) ==
    /\ Ready /\ live[v]
    /\ LET r == SetDotMask(State, m_dotMask, m_dot_mask_defined, v)
       IN  /\ m_dotMask' = r.mask
           /\ m_dot_mask_defined' = r.built
           /\ EndsConst(Call0("SetDotMask", v), r.out, 0)

CallClearDotMask ==
    /\ Ready
    /\ LET r == clearDotMask(m_dotMask, m_dot_mask_defined)
       IN  /\ m_dotMask' = r.mask
           /\ m_dot_mask_defined' = r.built
    /\ EndsConst(Call0("clearDotMask", 0), "ok", 0)

CallDotProduct(v, w) ==
    /\ Ready /\ live[v] /\ live[w]
    /\ LET r == dotProduct(State, m_dotMask, m_dot_mask_defined, v, w)
       IN  EndsConst(Call1("dotProduct", v, w), r.out, r.val)
    /\ UNCHANGED <<m_dot_mask_defined, m_dotMask>>

CallNorm2(v) ==
    /\ Ready /\ live[v]
    /\ LET r == norm2(State, m_dotMask, m_dot_mask_defined, v)
       IN  EndsConst(Call0("norm2", v), r.out, r.val)
    /\ UNCHANGED <<m_dot_mask_defined, m_dotMask>>

\* The driver moves on from a call that returned.
Proceed ==
    /\ status = "ok" /\ last.op # "none"
    /\ last' = NoCall
    /\ UNCHANGED <<assertions, Efield, live, m_is_defined, m_field_vec,
                   m_dot_mask_defined, m_dotMask, status, movedFrom, defines>>

\* Construction, definition, copy, move and the mask's life.
Next ==
    \/ Proceed
    \/ \E v \in Objs : DefaultCtor(v)
    \/ \E v \in Objs : Dtor(v)
    \/ \E v, w \in Objs : CallMoveCtor(v, w)
    \/ \E v, w \in Objs : CallMoveAssign(v, w)
    \/ \E v \in Objs : CallDefineArr(v)
    \/ \E v, w \in Objs : CallDefine(v, w)
    \/ \E v \in Objs : CallCopyArr(v)
    \/ \E v, w \in Objs : CallCopy(v, w)
    \/ \E v \in Objs : CallSetDotMask(v)
    \/ CallClearDotMask
    \/ \E v, w \in Objs : CallDotProduct(v, w)
    \/ \E v \in Objs : CallNorm2(v)

Spec == Init /\ [][Next]_vars

\* The algebra on vectors.
NextAlg ==
    \/ \E v, w \in Vecs : CallPlusEq(v, w)
    \/ \E v, w \in Vecs : CallMinusEq(v, w)
    \/ \E v, X, Y \in Vecs : \E a, b \in Scalars : CallLinComb(v, a, X, b, Y)
    \/ \E v, X \in Vecs : \E a \in Scalars : CallIncrement(v, X, a)
    \/ \E v \in Vecs : \E a \in Scalars : CallScale(v, a)
    \/ \E v \in Vecs : \E a \in Vals : CallSetVal(v, a)
    \/ \E v \in Vecs : CallZero(v)
    \/ \E v \in Vecs : CallSetDotMask(v)
    \/ \E v, w \in Vecs : CallDotProduct(v, w)
    \/ \E v \in Vecs : CallNorm2(v)

\* The vectors a solver works with: each either still undefined, or defined
\* from the field arrays and then loaded by Copy(field arrays) or setVal(c);
\* the components Copy does not reach keep what the allocation held (g).
Loads == {<<"undefined", 0>>, <<"copied", 0>>, <<"setVal", 1>>, <<"setVal", -1>>}

Loaded(kind, base, nc, g) ==
    IF kind[1] = "undefined" THEN <<>>
    ELSE << [n \in Fields |->
               IF kind[1] = "copied"
               THEN MFCopy(MakeFab(NumFields * base + n + 1, nc, g),
                           FieldArrays(nc)[1][n], 0, 0, m_ncomp)
               ELSE MFsetVal(MakeFab(NumFields * base + n + 1, nc, g), kind[2])] >>

InitAlg ==
    /\ assertions \in BOOLEAN
    /\ Efield \in {FieldArrays(nc) : nc \in 1..MaxNComp}
    /\ live = [v \in Vecs |-> TRUE]
    /\ \E kind \in [Vecs -> Loads] : \E g \in Garbage :
        /\ m_is_defined = [v \in Vecs |-> kind[v][1] # "undefined"]
        /\ m_field_vec = [v \in Vecs |->
              Loaded(kind[v], Cardinality({w \in Vecs : w < v /\ kind[w][1] # "undefined"}),
                     Efield[1][0].ncomp, g)]
        /\ defines = [v \in Vecs |-> IF kind[v][1] = "undefined" THEN 0 ELSE 1]
    /\ \E m \in {"never built", "built"} :
        /\ m_dot_mask_defined = (m # "never built")
        /\ m_dotMask = IF m = "built"
                       THEN [l \in Levs |-> [n \in Fields |-> OwnerMask]]
                       ELSE <<>>
    /\ status = "ok"
    /\ last = NoCall
    /\ movedFrom = [v \in Vecs |-> FALSE]

SpecAlg == InitAlg /\ [][NextAlg]_vars

\* ------------------------------------------------------------ claims
Arr(v) == m_field_vec[v]
Holds(v) == m_is_defined[v] /\ Usable(m_field_vec[v])
MaskPresent == m_dot_mask_defined /\ Len(m_dotMask) >= m_num_amr_levels
Normal(call) == call.out = "returned" /\ ~call.ub

\* The sum over fields and over mesh points, each point taken once (from the
\* patch that owns it), of the product of the two vectors' values.
UniqueDot(X, Y) ==
    SumOver([nx \in Fields \X Points |->
                X[1][nx[1]].data[0][<<Owner(nx[2]), nx[2]>>]
                * Y[1][nx[1]].data[0][<<Owner(nx[2]), nx[2]>>]],
            Fields \X Points)

\* Every copy of a mesh point holds the same value.
Consistent(X) ==
    \A n \in Fields : \A e, f \in Entries :
        e[2] = f[2] => X[1][n].data[0][e] = X[1][n].data[0][f]
AnyCopy(x) == CHOOSE e \in Entries : e[2] = x
SquareSum(X) ==
    SumOver([nx \in Fields \X Points |->
                X[1][nx[1]].data[0][AnyCopy(nx[2])] * X[1][nx[1]].data[0][AnyCopy(nx[2])]],
            Fields \X Points)

\* C1: with both vectors defined and the mask built, dotProduct returns the
\* sum over fields and mesh points of value(X) * value(Y) with every mesh
\* point counted once, however many patches store it; for a vector whose
\* copies of a point agree, dotProduct(X, X) is the sum of squares over the
\* distinct points; norm2 is the root of that.
C1_DotProductCountsEachPointOnce ==
    /\ (last.op = "dotProduct" /\ Holds(last.recv) /\ Holds(last.x) /\ MaskPresent)
        => /\ Normal(last)
           /\ last.val = UniqueDot(Arr(last.recv), Arr(last.x))
           /\ (last.recv = last.x /\ Consistent(Arr(last.recv)))
                => last.val = SquareSum(Arr(last.recv))
    /\ (last.op = "norm2" /\ Holds(last.recv) /\ MaskPresent)
        => /\ Normal(last)
           /\ last.val = Sqrt(UniqueDot(Arr(last.recv), Arr(last.recv)))

\* A point stored by two patches with the same nonzero value: three fields of
\* three distinct points give 9, where the four stored values would give 12.
C1_Witness ==
    /\ last.op = "dotProduct" /\ last.recv = last.x /\ Normal(last)
    /\ Holds(last.recv) /\ MaskPresent /\ NumPatches >= 2
    /\ \A n \in Fields : \A e \in Entries : Arr(last.recv)[1][n].data[0][e] = 1
    /\ last.val = NumFields * Cardinality(Points)
    /\ last.val < NumFields * Cardinality(Entries)

\* The value vector v holds in field n at stored entry e.
Value(fv, v, n, e) == fv[v][1][n].data[0][e]

C2_UndefinedOperandAborts ==
    [][ (/\ last'.op \in {"+=", "-=", "linComb", "increment", "scale", "setVal",
                          "zero", "Copy", "dotProduct", "norm2"}
         /\ \/ (last'.op # "Copy" /\ ~m_is_defined[last'.recv])
            \/ (last'.x # 0 /\ ~m_is_defined[last'.x])
            \/ (last'.y # 0 /\ ~m_is_defined[last'.y]))
        => (last'.out = "aborted" /\ m_field_vec' = m_field_vec)
      ]_vars

\* The arrays handed to the call as template: those of vector x, or the
\* field arrays for the array form.
IsDefineCall(call) == call.op \in {"Define", "DefineArr"}

\* C3: Define on a defined vector aborts and leaves arrays and flag as they
\* were; Define(other) with other undefined aborts and leaves the receiver
\* undefined; Define on an undefined vector with a template that holds its
\* arrays returns normally with the vector defined and holding new arrays; no
\* vector has its storage allocated by Define more than once.
C3_Define ==
    [][ /\ (IsDefineCall(last') /\ m_is_defined[last'.recv])
           => /\ last'.out = "aborted"
              /\ m_field_vec' = m_field_vec /\ m_is_defined' = m_is_defined
        /\ (last'.op = "Define" /\ ~m_is_defined[last'.x])
           => /\ last'.out = "aborted"
              /\ m_field_vec' = m_field_vec /\ m_is_defined' = m_is_defined
        /\ (/\ IsDefineCall(last') /\ ~m_is_defined[last'.recv]
            /\ last'.op = "Define" => Holds(last'.x))
           => /\ Normal(last')
              /\ m_is_defined'[last'.recv]
              /\ Usable(m_field_vec'[last'.recv])
              /\ defines'[last'.recv] = defines[last'.recv] + 1
              /\ \A w \in Vecs \ {last'.recv} :
                    m_field_vec'[w] = m_field_vec[w] /\ m_is_defined'[w] = m_is_defined[w]
        /\ \A v \in Vecs : defines'[v] <= 1
      ]_vars

\* A second Define on a vector that Define had allocated: aborted, the arrays
\* still there.
C3_Witness ==
    /\ IsDefineCall(last) /\ last.out = "aborted" /\ status = "aborted"
    /\ Holds(last.recv) /\ defines[last.recv] = 1
    /\ (last.op = "Define" => Holds(last.x))

\* C4 (as claimed): right after clearDotMask the mask holds no array and the
\* built flag is false.
C4_ClearResetsBuilt ==
    last.op = "clearDotMask" => (Len(m_dotMask) = 0 /\ ~m_dot_mask_defined)

\* C5 (as claimed): dotProduct or norm2 called while the mask holds no arrays
\* (never built, or cleared since) aborts.
C5_DotWithoutMaskAborts ==
    (last.op \in {"dotProduct", "norm2"} /\ Len(m_dotMask) = 0)
        => last.out = "aborted"

\* No MultiFab is held by two vectors, or twice by one.
Slots == Vecs \X Fields
NoSharing(fv) ==
    \A s1, s2 \in Slots :
        (/\ s1 # s2
         /\ Len(fv[s1[1]]) >= 1 /\ Len(fv[s2[1]]) >= 1
         /\ fv[s1[1]][1][s1[2]].id # 0)
        => fv[s1[1]][1][s1[2]].id # fv[s2[1]][1][s2[2]].id

\* C6 (as claimed): Copy(source) with source defined (and holding its
\* arrays) returns with the receiver defined, equal to source at every field
\* and entry, in arrays of its own, and source as it was.
C6_CopyMakesDeepCopy ==
    [][ (last'.op = "Copy" /\ Holds(last'.x) /\ last'.recv # last'.x)
        => /\ Normal(last')
           /\ m_is_defined'[last'.recv]
           /\ Usable(m_field_vec'[last'.recv])
           /\ \A n \in Fields : \A e \in Entries :
                 Value(m_field_vec', last'.recv, n, e) = Value(m_field_vec, last'.x, n, e)
           /\ m_field_vec'[last'.x] = m_field_vec[last'.x]
           /\ NoSharing(m_field_vec')
      ]_vars

IsMove(call) == call.op \in {"movector", "moveassign"}

\* C7 (as claimed): after a move the destination holds the arrays the source
\* held, the source holds none and is defined, and no array has two owners.
C7_MoveLeavesSourceDefinedEmpty ==
    [][ /\ IsMove(last')
           => /\ m_field_vec'[last'.recv] = m_field_vec[last'.x]
              /\ Len(m_field_vec'[last'.x]) = 0
              /\ m_is_defined'[last'.x]
        /\ NoSharing(m_field_vec')
      ]_vars

\* C7 (amended): a move between two distinct vectors gives the destination
\* the arrays the source held and leaves the source holding none, with the
\* source's defined flag as it was (a defined source is left defined but
\* emptied); a move assignment of a vector to itself changes nothing; no
\* array ever has two owners.
C7_MoveTransfersOwnership ==
    [][ /\ (IsMove(last') /\ last'.recv # last'.x)
           => /\ m_field_vec'[last'.recv] = m_field_vec[last'.x]
              /\ Len(m_field_vec'[last'.x]) = 0
              /\ m_is_defined'[last'.x] = m_is_defined[last'.x]
              /\ \A w \in Vecs \ {last'.recv, last'.x} : m_field_vec'[w] = m_field_vec[w]
        /\ (IsMove(last') /\ last'.recv = last'.x)
           => (m_field_vec' = m_field_vec /\ m_is_defined' = m_is_defined)
        /\ NoSharing(m_field_vec')
      ]_vars

\* A move assignment from a defined vector holding arrays into another one.
C7_Witness ==
    /\ last.op = "moveassign" /\ last.recv # last.x
    /\ Holds(last.recv)
    /\ m_is_defined[last.x] /\ Len(m_field_vec[last.x]) = 0 /\ movedFrom[last.x]

\* C9 (as claimed): Define gives every array one component, and Copy from
\* the field arrays then covers every value the vector stores.
C9_OneComponentAllCovered ==
    /\ (IsDefineCall(last) /\ Normal(last))
        => \A n \in Fields : Arr(last.recv)[1][n].ncomp = 1
    /\ (last.op = "CopyArr" /\ Normal(last))
        => \A n \in Fields : Arr(last.recv)[1][n].data = Efield[1][n].data

\* C10 (as claimed): a vector that reports defined and was never the
\* source of a move holds an allocated array in every slot.
C10_DefinedHoldsArrays ==
    \A v \in Vecs :
        (live[v] /\ m_is_defined[v] /\ ~movedFrom[v]) => Usable(m_field_vec[v])

====
